---- MODULE Spec2Model ----
(***************************************************************************)
(* Model of the email-monitor run: processEmails (main orchestration),     *)
(* ConfigService, EmailService.fetchNewEmails, GeminiService.extractTodos  *)
(* and LineService.pushMessage/withRetry.                                  *)
(*                                                                         *)
(* Strings that the code parses are sequences of one-character strings     *)
(* (or of lexical tokens where stated).  Message dates and the watermark   *)
(* are Unix timestamps in abstract ticks; the run clock is in ms.          *)
(***************************************************************************)
EXTENDS Integers, Sequences, FiniteSets, TLC

(***************************************************************************)
(* Bounds of the model                                                     *)
(***************************************************************************)
\* messages that ever arrive in the mailbox
MaxMsgs == 2
\* number of distinct message dates
MaxTime == 2
\* smallest message date (so that dates cross a digit-length boundary)
DateBase == 9
\* ticks per calendar day (granularity of the Gmail "after:" query)
TicksPerDay == 10
\* mailbox threads
MaxThreads == 2
\* duration of a slow external call, in ms
SlowCallMs == 200000

(***************************************************************************)
(* Program constants                                                       *)
(***************************************************************************)
MAX_EXECUTION_TIME_MS == 6 * 60 * 1000
DEFAULT_MAX_RETRIES == 3
DEFAULT_MAX_EMAILS_PER_RUN == 100

\* getProperty's null: a value that is no string of characters
NULL == <<"<null>">>

\* JavaScript numbers as the code gets them from parseInt
Num(n) == [nan |-> FALSE, n |-> n]

NaN == [nan |-> TRUE, n |-> 0]

Dates == DateBase .. (DateBase + MaxTime - 1)
ThreadIds == 1 .. MaxThreads
MsgIds == 1 .. MaxMsgs

(***************************************************************************)
(* Generic helpers                                                         *)
(***************************************************************************)
Range(s) == {s[i] : i \in 1 .. Len(s)}

Min(a, b) == IF a <= b THEN a ELSE b

RECURSIVE Pow2(_)
Pow2(n) == IF n = 0 THEN 1 ELSE 2 * Pow2(n - 1)

RECURSIVE SumSeq(_)
SumSeq(s) == IF s = <<>> THEN 0 ELSE Head(s) + SumSeq(Tail(s))

\* all orderings of the elements of a finite set, as sequences
RECURSIVE Perms(_)
Perms(S) ==
  IF S = {} THEN {<<>>}
  ELSE UNION {{<<x>> \o p : p \in Perms(S \ {x})} : x \in S}

(***************************************************************************)
(* Number <-> string conversions used on the watermark                     *)
(***************************************************************************)
DigitChars == <<"0", "1", "2", "3", "4", "5", "6", "7", "8", "9">>

IsDigit(c) == \E d \in 1 .. 10 : DigitChars[d] = c

DigitVal(c) == (CHOOSE d \in 1 .. 10 : DigitChars[d] = c) - 1

\* Number.prototype.toString() of a non-negative integer
RECURSIVE NumToString(_)
NumToString(n) ==
  IF n < 10 THEN <<DigitChars[n + 1]>>
  ELSE NumToString(n \div 10) \o <<DigitChars[(n % 10) + 1]>>

\* value of the longest prefix of digits of s, given the value acc so far
RECURSIVE ParseDigits(_, _)
ParseDigits(s, acc) ==
  IF s = <<>> \/ ~IsDigit(Head(s)) THEN acc
  ELSE ParseDigits(Tail(s), 10 * acc + DigitVal(Head(s)))

RECURSIVE SkipSpaces(_)
SkipSpaces(s) ==
  IF s # <<>> /\ Head(s) = " " THEN SkipSpaces(Tail(s)) ELSE s

\* parseInt(s, 10): leading blanks, optional sign, then digits; NaN if none
parseInt(str) ==
  LET s == SkipSpaces(str)
      neg == s # <<>> /\ Head(s) = "-"
      body == IF s # <<>> /\ Head(s) \in {"-", "+"} THEN Tail(s) ELSE s
  IN IF body = <<>> \/ ~IsDigit(Head(body)) THEN NaN
     ELSE IF neg THEN Num(0 - ParseDigits(body, 0))
     ELSE Num(ParseDigits(body, 0))

\* JavaScript a <= b on numbers: false as soon as one side is NaN
NumLeq(a, b) == ~a.nan /\ ~b.nan /\ a.n <= b.n

(***************************************************************************)
(* State                                                                   *)
(***************************************************************************)
VARIABLES
  properties,   \* Script Properties: key -> NULL or string
  mailbox,      \* inbox messages, in arrival order
  pc,           \* position of processEmails: idle, fetch, loop, push, done
  config,       \* AppConfig loaded by getConfig at run start (NULL before)
  emails,       \* messages returned by fetchEmails for this run
  idx,          \* index of the next message of the for loop (1-based)
  elapsed,      \* new Date().getTime() - startTime, ms
  totalTodosExtracted,
  push,         \* the pushMessage call in progress or last completed
  retry,        \* the withRetry loop followed attempt by attempt
  extraction,   \* one extractTodos call followed alone: reply and result
  pushLog,      \* pushMessage calls completed in this run, in order
  visited,      \* ids handed to processEmail in this run, in order
  extractLog,   \* outcome of extractTodos for each visited message
  outcome,      \* how the run ended: none, returned, threw
  error,        \* what was thrown: none, config, gmail, gemini, line
  wmStart,      \* parsed persisted watermark when the run started
  wmWrites,     \* values written by updateLastProcessedTime in this run
  everVisited,  \* ids handed to processEmail by earlier, finished runs
  ranBefore,    \* followed in SpecRerun only: the last run returned and left
                \* no message of the mailbox for a later run
  formatting    \* one formatTodosForLine call followed alone: input and result

vars == <<properties, mailbox, pc, config, emails, idx, elapsed,
          totalTodosExtracted, push, retry, extraction, pushLog, visited,
          extractLog, outcome, error, wmStart, wmWrites, everVisited,
          ranBefore, formatting>>

runVars == <<config, emails, idx, elapsed, totalTodosExtracted, push, retry,
             extraction, pushLog,
             visited, extractLog, outcome, error, wmStart, wmWrites>>

(***************************************************************************)
(* ConfigService                                                           *)
(***************************************************************************)
\* JavaScript !str for a property value: null or the empty string
Falsy(str) == str = NULL \/ str = <<>>

\* String.prototype.trim on a token sequence
RECURSIVE TrimRight(_)
TrimRight(s) ==
  IF s # <<>> /\ s[Len(s)] = " " THEN TrimRight(SubSeq(s, 1, Len(s) - 1)) ELSE s

Trim(s) == TrimRight(SkipSpaces(s))

\* String.prototype.split(','): the pieces between the commas, cur being the
\* piece under construction
RECURSIVE SplitComma(_, _)
SplitComma(s, cur) ==
  IF s = <<>> THEN <<cur>>
  ELSE IF Head(s) = "," THEN <<cur>> \o SplitComma(Tail(s), <<>>)
  ELSE SplitComma(Tail(s), Append(cur, Head(s)))

\* senderWhitelistStr.split(',').map(trim).filter(length > 0)
ParseWhitelist(str) ==
  LET parts == SplitComma(str, <<>>)
      trimmed == [i \in 1 .. Len(parts) |-> Trim(parts[i])]
  IN SelectSeq(trimmed, LAMBDA e : Len(e) > 0)

\* a required-field check that looks at the access token only
ConfigErrorTokenOnly(props) ==
  IF Falsy(props.lineAccessToken) THEN "lineAccessToken" ELSE "ok"

\* the required-field check of getConfig: the name of the error, or "ok"
ConfigError(props) ==
  IF Falsy(props.lineAccessToken) THEN "lineAccessToken"
  ELSE IF Falsy(props.lineGroupId) THEN "lineGroupId"
  ELSE IF Falsy(props.geminiApiKey) THEN "geminiApiKey"
  ELSE IF Falsy(props.senderWhitelist) THEN "senderWhitelist"
  ELSE IF Len(ParseWhitelist(props.senderWhitelist)) = 0 THEN "emptyWhitelist"
  ELSE "ok"

\* getConfig, when it does not throw
getConfig(props) ==
  [lineAccessToken |-> props.lineAccessToken,
   lineGroupId |-> props.lineGroupId,
   geminiApiKey |-> props.geminiApiKey,
   senderWhitelist |-> ParseWhitelist(props.senderWhitelist),
   lastProcessedTime |->
     IF Falsy(props.lastProcessedTime) THEN Num(0)
     ELSE parseInt(props.lastProcessedTime),
   maxEmailsPerRun |->
     IF Falsy(props.maxEmailsPerRun) THEN Num(DEFAULT_MAX_EMAILS_PER_RUN)
     ELSE parseInt(props.maxEmailsPerRun)]

\* updateLastProcessedTime that writes nothing
updateLastProcessedTimeSkipped(props, timestamp) == props

\* updateLastProcessedTime that writes the value of a first deployment
updateLastProcessedTimeStale(props, timestamp) ==
  [props EXCEPT !.lastProcessedTime = <<"0">>]

\* updateLastProcessedTime that writes a second key too
updateLastProcessedTimeAndMax(props, timestamp) ==
  [props EXCEPT !.lastProcessedTime = NumToString(timestamp),
                !.maxEmailsPerRun = <<"1">>]

\* updateLastProcessedTime: setProperty('lastProcessedTime', timestamp.toString())
updateLastProcessedTime(props, timestamp) ==
  [props EXCEPT !.lastProcessedTime = NumToString(timestamp)]

\* the persisted watermark as a run reads it
PersistedWatermark ==
  IF Falsy(properties.lastProcessedTime) THEN Num(0)
  ELSE parseInt(properties.lastProcessedTime)

(***************************************************************************)
(* Mailbox and EmailService.fetchNewEmails                                 *)
(***************************************************************************)
Senders == {"a@x.com", "b@x.com"}

Messages == [id : MsgIds, from : Senders, date : Dates, threadId : ThreadIds]

\* calendar day of a timestamp: Utilities.formatDate(date, 'GMT', 'yyyy/MM/dd')
Day(t) == t \div TicksPerDay

InWhitelist(from, senderWhitelist) ==
  \E i \in 1 .. Len(senderWhitelist) : senderWhitelist[i] = <<from>>

\* thread.getMessages()
ThreadMessages(box, th) == SelectSeq(box, LAMBDA m : m.threadId = th)

\* the threads that match "(from:s1 OR from:s2 ...) after:queryDate in:inbox"
MatchingThreads(box, lastProcessedTime, senderWhitelist) ==
  {th \in ThreadIds :
     \E i \in 1 .. Len(box) :
        /\ box[i].threadId = th
        /\ InWhitelist(box[i].from, senderWhitelist)
        /\ Day(box[i].date) >= Day(lastProcessedTime.n)}

\* GmailApp.search(query, 0, max): at most max matching threads, in an order
\* the mailbox chooses
SearchResults(box, lastProcessedTime, senderWhitelist, max) ==
  LET matching == MatchingThreads(box, lastProcessedTime, senderWhitelist)
      k == Min(max.n, Cardinality(matching))
  IN UNION {Perms(S) : S \in {T \in SUBSET matching : Cardinality(T) = k}}

\* fetchNewEmails without its message-level filter
IsNewMessageUnfiltered(messageDate, lastProcessedTime) == TRUE

\* fetchNewEmails skipping on messageDate < lastProcessedTime only
IsNewMessageInclusive(messageDate, lastProcessedTime) ==
  ~(~lastProcessedTime.nan /\ messageDate < lastProcessedTime.n)

\* the message-level filter of fetchNewEmails: skip when messageDate <= lastProcessedTime
IsNewMessage(messageDate, lastProcessedTime) ==
  ~NumLeq(Num(messageDate), lastProcessedTime)

\* fetchNewEmails on the threads the search returned: every new message of
\* every thread, thread by thread
RECURSIVE fetchNewEmails(_, _, _)
fetchNewEmails(box, threads, lastProcessedTime) ==
  IF threads = <<>> THEN <<>>
  ELSE SelectSeq(ThreadMessages(box, Head(threads)),
                 LAMBDA m : IsNewMessage(m.date, lastProcessedTime))
       \o fetchNewEmails(box, Tail(threads), lastProcessedTime)

(***************************************************************************)
(* GeminiService                                                           *)
(*                                                                         *)
(* A response text is a sequence of lexical tokens [t, v]: t is "fence"    *)
(* (three backquotes), "json" (the word json), "nl", "sp", "junk" (text    *)
(* that is no JSON), "array" (a JSON array, v its elements), "object" or   *)
(* "null" (a JSON value that is no array).                                 *)
(***************************************************************************)
Tok(t) == [t |-> t, v |-> <<>>]

ArrayTok(elems) == [t |-> "array", v |-> elems]

\* elements of a JSON array: objects with or without description, or null
Elem(kind, description, priority) ==
  [kind |-> kind, description |-> description, priority |-> priority]

IsSpaceTok(tok) == tok.t \in {"nl", "sp"}

RECURSIVE TrimLeftText(_)
TrimLeftText(s) ==
  IF s # <<>> /\ IsSpaceTok(Head(s)) THEN TrimLeftText(Tail(s)) ELSE s

RECURSIVE TrimRightText(_)
TrimRightText(s) ==
  IF s # <<>> /\ IsSpaceTok(s[Len(s)])
  THEN TrimRightText(SubSeq(s, 1, Len(s) - 1)) ELSE s

\* String.prototype.trim
TrimText(s) == TrimRightText(TrimLeftText(s))

StartsWithFenceJson(s) ==
  Len(s) >= 2 /\ s[1].t = "fence" /\ s[2].t = "json"

StartsWithFence(s) == Len(s) >= 1 /\ s[1].t = "fence"

\* s.replace(/\n?```$/, ''): a closing fence at the very end, with the newline
\* before it if there is one
StripClosingFence(s) ==
  IF s # <<>> /\ s[Len(s)].t = "fence"
  THEN IF Len(s) >= 2 /\ s[Len(s) - 1].t = "nl"
       THEN SubSeq(s, 1, Len(s) - 2) ELSE SubSeq(s, 1, Len(s) - 1)
  ELSE s

\* s.replace(/```json\n?/, '') on a text that starts with ```json
StripOpeningFenceJson(s) ==
  IF Len(s) >= 3 /\ s[3].t = "nl" THEN SubSeq(s, 4, Len(s))
  ELSE SubSeq(s, 3, Len(s))

\* s.replace(/```\n?/, '') on a text that starts with ```
StripOpeningFence(s) ==
  IF Len(s) >= 2 /\ s[2].t = "nl" THEN SubSeq(s, 3, Len(s))
  ELSE SubSeq(s, 2, Len(s))

\* parseTodosFromResponse without the removal of the code fences
StripFencesOmitted(response) == TrimText(response)

\* the markdown code block removal of parseTodosFromResponse
StripFences(response) ==
  LET jsonStr == TrimText(response)
  IN IF StartsWithFenceJson(jsonStr)
     THEN StripClosingFence(StripOpeningFenceJson(jsonStr))
     ELSE IF StartsWithFence(jsonStr)
     THEN StripClosingFence(StripOpeningFence(jsonStr))
     ELSE jsonStr

\* JSON.parse: one JSON value with blanks around it, otherwise a SyntaxError
JsonParses(s) ==
  LET body == TrimText(s)
  IN Len(body) = 1 /\ body[1].t \in {"array", "object", "null"}

JsonValue(s) == TrimText(s)[1]

\* todos.map(...): reading .description of a null element is a TypeError
MapThrows(elems) == \E i \in 1 .. Len(elems) : elems[i].kind = "null"

TodoItem(elem, emailId) ==
  [description |-> elem.description, priority |-> elem.priority,
   sourceEmailId |-> emailId]

\* parseTodosFromResponse: every exception is caught and gives []
parseTodosFromResponse(response, emailId) ==
  LET jsonStr == StripFences(response)
  IN IF ~JsonParses(jsonStr) THEN <<>>
     ELSE IF JsonValue(jsonStr).t # "array" THEN <<>>
     ELSE IF MapThrows(JsonValue(jsonStr).v) THEN <<>>
     ELSE [i \in 1 .. Len(JsonValue(jsonStr).v) |->
             TodoItem(JsonValue(jsonStr).v[i], emailId)]

\* What the generative endpoint answers to one call: a transport exception, or
\* an HTTP status with a body that is no JSON ("unparseable"), JSON without
\* candidate text ("noText"), or JSON with a candidate text ("text").
GeminiException ==
  [kind |-> "exception", status |-> 0, body |-> "none", text |-> <<>>]

GeminiHttp(status, body, text) ==
  [kind |-> "http", status |-> status, body |-> body, text |-> text]

Threw == [threw |-> TRUE, value |-> <<>>]

Returned(value) == [threw |-> FALSE, value |-> value]

\* callGeminiAPI: throws, or returns the content string
callGeminiAPI(reply) ==
  IF reply.kind = "exception" THEN Threw
  ELSE IF reply.status # 200 THEN Threw
  ELSE IF reply.body = "unparseable" THEN Threw
  ELSE IF reply.body = "noText" \/ reply.text = <<>>
  THEN Returned(<<ArrayTok(<<>>)>>)
  ELSE Returned(reply.text)

NoExtraction == [reply |-> GeminiException, done |-> FALSE, result |-> Threw]

\* extractTodos: throws, or returns the list of todo items
extractTodos(reply, emailId) ==
  IF callGeminiAPI(reply).threw THEN Threw
  ELSE Returned(parseTodosFromResponse(callGeminiAPI(reply).value, emailId))

(***************************************************************************)
(* LineService                                                             *)
(***************************************************************************)
LineStatuses == {200, 204, 429, 500}

\* what the push endpoint does on one HTTP attempt: UrlFetchApp.fetch throws
\* (transport failure), or answers with a status (muteHttpExceptions: true)
LineException == [kind |-> "exception", status |-> 0]

LineHttp(status) == [kind |-> "http", status |-> status]

LineReplies == {LineException} \cup {LineHttp(st) : st \in LineStatuses}

\* handleLineResponse that takes every 2xx status for a success
handleLineResponse2xx(statusCode) ==
  [status |-> statusCode, hasError |-> ~(statusCode \in 200 .. 299)]

\* handleLineResponse / buildErrorResponse: a LineApiResponse, never a throw
handleLineResponse(statusCode) ==
  [status |-> statusCode, hasError |-> statusCode # 200]

\* processEmail's test of the response: response.status === 200
IsSent(response) == response.status = 200

\* sendToLineApi: throws only when the fetch itself throws
sendToLineApi(reply) ==
  IF reply.kind = "exception" THEN Threw
  ELSE Returned(handleLineResponse(reply.status))

\* withRetry: the backoff after failed attempt number attempt (0-based), ms
backoffMs(attempt) == Pow2(attempt) * 1000

\* withRetry sleeping after every failed attempt, the last included
SleepsAfterEveryAttempt(attempt, maxRetries) == attempt <= maxRetries

\* withRetry: whether the failed attempt number attempt is followed by a sleep
SleepsAfter(attempt, maxRetries) == attempt < maxRetries

\* withRetry: the condition of the for loop
LoopContinues(attempt, maxRetries) == attempt <= maxRetries

(***************************************************************************)
(* MessageFormatter                                                        *)
(*                                                                         *)
(* A string is followed by its length in UTF-16 code units, as String      *)
(* .length counts it; a todo is [descriptionLength, priority].  A formatted *)
(* text is [kept, suffix]: the first kept code units of the rendered       *)
(* message, followed by the characters of suffix.                          *)
(***************************************************************************)
MAX_MESSAGE_LENGTH == 5000

\* the 20 of substring(0, MAX_MESSAGE_LENGTH - 20)
TRUNCATION_RESERVE == 20

\* '\n\n...(truncated)'
TruncationSuffix ==
  <<"\n", "\n", ".", ".", ".", "(", "t", "r", "u", "n", "c", "a", "t", "e",
    "d", ")">>

\* getPriorityIcon: a coloured circle (2 code units) and a space, or ''
getPriorityIcon(priority) ==
  IF priority \in {"high", "medium", "low"} THEN 3 ELSE 0

\* the lines `${number}. ${priorityIcon}${todo.description}\n` of todos i..
RECURSIVE TodoLinesLength(_, _)
TodoLinesLength(todos, i) ==
  IF i > Len(todos) THEN 0
  ELSE Len(NumToString(i)) + 2 + getPriorityIcon(todos[i].priority)
       + todos[i].descriptionLength + 1 + TodoLinesLength(todos, i + 1)

\* message.length before the limit is enforced: header (title 25, From: 7,
\* Subject: 10, rule 20), the todo lines, footer (rule 19, Total: n todo(s))
RenderedLength(todos, sender, subject) ==
  25 + (7 + sender) + (10 + subject) + 20
  + TodoLinesLength(todos, 1)
  + 19 + (7 + Len(NumToString(Len(todos))) + 5
          + (IF Len(todos) > 1 THEN 1 ELSE 0))

\* formatTodosForLine that never truncates
formatTodosForLineUntruncated(todos, sender, subject) ==
  [kept |-> IF Len(todos) = 0 THEN 0
            ELSE RenderedLength(todos, sender, subject),
   suffix |-> <<>>]

\* formatTodosForLine that keeps limit minus the length of the suffix
formatTodosForLineExact(todos, sender, subject) ==
  IF Len(todos) = 0 THEN [kept |-> 0, suffix |-> <<>>]
  ELSE IF RenderedLength(todos, sender, subject) > MAX_MESSAGE_LENGTH
  THEN [kept |-> MAX_MESSAGE_LENGTH - Len(TruncationSuffix),
        suffix |-> TruncationSuffix]
  ELSE [kept |-> RenderedLength(todos, sender, subject), suffix |-> <<>>]

\* formatTodosForLine
formatTodosForLine(todos, sender, subject) ==
  IF Len(todos) = 0 THEN [kept |-> 0, suffix |-> <<>>]
  ELSE IF RenderedLength(todos, sender, subject) > MAX_MESSAGE_LENGTH
  THEN [kept |-> Min(RenderedLength(todos, sender, subject),
                     MAX_MESSAGE_LENGTH - TRUNCATION_RESERVE),
        suffix |-> TruncationSuffix]
  ELSE [kept |-> RenderedLength(todos, sender, subject), suffix |-> <<>>]

\* message.length of a formatted text
TextLength(text) == text.kept + Len(text.suffix)

\* no formatTodosForLine call is followed
NoFormatting ==
  [todos |-> <<>>, sender |-> 0, subject |-> 0, done |-> FALSE,
   result |-> [kept |-> 0, suffix |-> <<>>]]

\* a push of todos filed under the id of another message
TodosTextMisattributed(email, todos) ==
  [kind |-> "todos", emailId |-> (email.id % MaxMsgs) + 1, items |-> todos,
   status |-> "none", emailsFound |-> 0, todosExtracted |-> 0,
   errorMsg |-> "none"]

\* the text of a push: the todos of one message, or the run summary
TodosText(email, todos) ==
  [kind |-> "todos", emailId |-> email.id, items |-> todos,
   status |-> "none", emailsFound |-> 0, todosExtracted |-> 0,
   errorMsg |-> "none"]

\* sendRunSummary's text with one email too many
SummaryTextMiscounted(emailsFound, todosExtracted, status, errorMsg) ==
  [kind |-> "summary", emailId |-> 0, items |-> <<>>,
   status |-> status, emailsFound |-> emailsFound + 1,
   todosExtracted |-> todosExtracted, errorMsg |-> errorMsg]

\* sendRunSummary's text
SummaryText(emailsFound, todosExtracted, status, errorMsg) ==
  [kind |-> "summary", emailId |-> 0, items |-> <<>>,
   status |-> status, emailsFound |-> emailsFound,
   todosExtracted |-> todosExtracted, errorMsg |-> errorMsg]

NoText == [kind |-> "none", emailId |-> 0, items |-> <<>>,
           status |-> "none", emailsFound |-> 0, todosExtracted |-> 0,
           errorMsg |-> "none"]

\* state of the withRetry loop of one pushMessage call: attempt is the loop
\* variable, calls the HTTP attempts made, replies what the endpoint did on
\* each, sleeps the arguments of Utilities.sleep, result is pending, returned
\* or threw, httpStatus the status of the response returned
NoRetry ==
  [attempt |-> 0, calls |-> 0, replies |-> <<>>, sleeps |-> <<>>,
   result |-> "none", httpStatus |-> 0]

\* withRetry entered
withRetryStart ==
  [attempt |-> 0, calls |-> 0, replies |-> <<>>, sleeps |-> <<>>,
   result |-> "pending", httpStatus |-> 0]

\* one iteration of the withRetry loop, given what the endpoint does: fn()
\* returns whatever response it got; a throw is followed by a sleep unless the
\* attempt was the last, and when the loop is over lastError is thrown
withRetryStep(r, reply) ==
  IF ~sendToLineApi(reply).threw
  THEN [r EXCEPT !.calls = @ + 1, !.replies = Append(@, reply),
                 !.result = "returned",
                 !.httpStatus = sendToLineApi(reply).value.status]
  ELSE [r EXCEPT !.calls = @ + 1, !.replies = Append(@, reply),
                 !.attempt = @ + 1,
                 !.sleeps = IF SleepsAfter(r.attempt, DEFAULT_MAX_RETRIES)
                            THEN Append(@, backoffMs(r.attempt)) ELSE @,
                 !.result = IF LoopContinues(r.attempt + 1, DEFAULT_MAX_RETRIES)
                            THEN "pending" ELSE "threw"]

\* withRetry run to its end: the final states it can reach from r, over all
\* behaviours of the endpoint
RECURSIVE withRetry(_)
withRetry(r) ==
  IF r.result # "pending" THEN {r}
  ELSE UNION {withRetry(withRetryStep(r, reply)) : reply \in LineReplies}

\* a pushMessage call as the run sees it: its text and how it ended
NoPush == [text |-> NoText, result |-> "none", httpStatus |-> 0]

\* pushMessage(groupId, text) entered
pushMessage(text) == [text |-> text, result |-> "pending", httpStatus |-> 0]

(***************************************************************************)
(* Initial state                                                           *)
(***************************************************************************)
WhitelistStr == <<"a@x.com", ",", " ", "c@x.com">>

Props(token, whitelist, watermark, max) ==
  [lineAccessToken |-> token, lineGroupId |-> <<"C", "1">>,
   geminiApiKey |-> <<"k">>, senderWhitelist |-> whitelist,
   lastProcessedTime |-> watermark, maxEmailsPerRun |-> max]

\* the Script Properties an operator may have set before the first run
InitProperties ==
  {Props(<<"t">>, WhitelistStr, NULL, NULL),
   Props(<<"t">>, WhitelistStr, NumToString(DateBase), <<"1">>),
   Props(NULL, WhitelistStr, <<"0">>, NULL),
   Props(<<"t">>, <<" ", ",">>, <<"0">>, NULL),
   Props(<<"t">>, NULL, <<"0">>, NULL),
   [Props(<<"t">>, WhitelistStr, <<"0">>, NULL) EXCEPT !.lineGroupId = NULL],
   [Props(<<"t">>, WhitelistStr, <<"0">>, NULL) EXCEPT !.geminiApiKey = <<>>]}

NoConfig ==
  [lineAccessToken |-> NULL, lineGroupId |-> NULL, geminiApiKey |-> NULL,
   senderWhitelist |-> <<>>, lastProcessedTime |-> Num(0),
   maxEmailsPerRun |-> Num(0)]

\* the per-run state before a run has started
RunReset ==
  /\ config = NoConfig
  /\ emails = <<>>
  /\ idx = 1
  /\ elapsed = 0
  /\ totalTodosExtracted = 0
  /\ push = NoPush
  /\ retry = NoRetry
  /\ extraction = NoExtraction
  /\ pushLog = <<>>
  /\ visited = <<>>
  /\ extractLog = <<>>
  /\ outcome = "none"
  /\ error = "none"
  /\ wmStart = Num(0)
  /\ wmWrites = <<>>

Init ==
  /\ properties \in InitProperties
  /\ mailbox = <<>>
  /\ pc = "idle"
  /\ everVisited = {}
  /\ ranBefore = FALSE
  /\ formatting = NoFormatting
  /\ RunReset

(***************************************************************************)
(* Environment                                                             *)
(***************************************************************************)
\* a message arrives in the inbox, in an existing thread or in a new one;
\* messages arrive in the order of their dates
Arrive ==
  /\ pc = "idle"
  /\ Len(mailbox) < MaxMsgs
  /\ \E from \in Senders, date \in Dates, th \in ThreadIds :
        /\ th <= Cardinality({mailbox[i].threadId : i \in 1 .. Len(mailbox)}) + 1
        /\ mailbox # <<>> => date >= mailbox[Len(mailbox)].date
        /\ mailbox' = Append(mailbox,
             [id |-> Len(mailbox) + 1, from |-> from, date |-> date,
              threadId |-> th])
  /\ UNCHANGED <<properties, pc, everVisited, ranBefore, formatting, runVars>>

\* durations of one mailbox search or extraction call, ms.  The clock is
\* followed at this resolution: a push attempt and the backoff sleeps (7 s at
\* most per push, kept in push.sleeps) are below it.
CallDurations == {0, SlowCallMs, 2 * SlowCallMs}

\* the clock after d more ms; it is followed up to the first instant past the
\* time limit, where no comparison of the code depends on it any more
Advance(e, d) == Min(e + d, MAX_EXECUTION_TIME_MS + 1)

\* the replies of the generative endpoint drawn in a run
GoodItem == Elem("object", "task", "high")

RunGeminiReplies ==
  {GeminiException,
   GeminiHttp(500, "unparseable", <<>>),
   GeminiHttp(200, "unparseable", <<>>),
   GeminiHttp(200, "noText", <<>>),
   GeminiHttp(200, "text", <<Tok("junk")>>),
   GeminiHttp(200, "text", <<ArrayTok(<<>>)>>),
   GeminiHttp(200, "text",
     <<Tok("fence"), Tok("json"), Tok("nl"),
       ArrayTok(<<GoodItem, GoodItem>>), Tok("nl"), Tok("fence")>>)}

(***************************************************************************)
(* processEmails                                                           *)
(***************************************************************************)
\* the scheduler calls processEmails: startTime is taken and getConfig runs;
\* a getConfig that throws ends the run (it is outside the try block)
StartRun ==
  /\ pc = "idle"
  /\ wmStart' = PersistedWatermark
  /\ IF ConfigError(properties) = "ok"
     THEN /\ config' = getConfig(properties)
          /\ pc' = "fetch"
          /\ UNCHANGED <<outcome, error>>
     ELSE /\ outcome' = "threw"
          /\ error' = "config"
          /\ pc' = "done"
          /\ UNCHANGED config
  /\ UNCHANGED <<retry, extraction, properties, mailbox, everVisited, ranBefore, formatting,
                 emails, idx, elapsed,
                 totalTodosExtracted, push, pushLog, visited, extractLog,
                 wmWrites>>

\* fetchEmails without its check of the time limit
fetchEmailsUnchecked(box, threads, cfg, now) ==
  fetchNewEmails(box, threads, cfg.lastProcessedTime)

\* the emails fetchEmails returns: none when the time limit is passed
fetchEmails(box, threads, cfg, now) ==
  IF now > MAX_EXECUTION_TIME_MS THEN <<>>
  ELSE fetchNewEmails(box, threads, cfg.lastProcessedTime)

\* a failure of the search that ends the run without an error for the caller
FetchThrowsSwallowed ==
  /\ pc = "fetch"
  /\ outcome' = "returned"
  /\ error' = "gmail"
  /\ pc' = "done"
  /\ UNCHANGED <<retry, extraction, properties, mailbox, everVisited, ranBefore, formatting, config, emails, idx,
                 elapsed, totalTodosExtracted, push, pushLog, visited,
                 extractLog, wmStart, wmWrites>>

\* fetchEmails throws: GmailApp.search failed; the call is outside the try block
FetchThrows ==
  /\ pc = "fetch"
  /\ outcome' = "threw"
  /\ error' = "gmail"
  /\ pc' = "done"
  /\ UNCHANGED <<retry, extraction, properties, mailbox, everVisited, ranBefore, formatting, config, emails, idx,
                 elapsed, totalTodosExtracted, push, pushLog, visited,
                 extractLog, wmStart, wmWrites>>

\* fetchEmails returns; with no emails the success summary is pushed at once
Fetch ==
  /\ pc = "fetch"
  /\ \E d \in CallDurations :
     \E threads \in SearchResults(mailbox, config.lastProcessedTime,
                                  config.senderWhitelist, config.maxEmailsPerRun) :
        /\ elapsed' = Advance(elapsed, d)
        /\ emails' = fetchEmails(mailbox, threads, config, elapsed')
        /\ IF emails' = <<>>
           THEN /\ push' = pushMessage(SummaryText(0, 0, "success", "none"))
                /\ pc' = "push"
           ELSE /\ pc' = "loop"
                /\ UNCHANGED push
  /\ UNCHANGED <<retry, extraction, properties, mailbox, everVisited, ranBefore, formatting, config, idx,
                 totalTodosExtracted, pushLog, visited, extractLog, outcome,
                 error, wmStart, wmWrites>>

\* a success summary pushed from inside the loop, before it is over
LoopEndEarly ==
  /\ pc = "loop"
  /\ push' = pushMessage(
       SummaryText(Len(emails), totalTodosExtracted, "success", "none"))
  /\ pc' = "push"
  /\ UNCHANGED <<retry, extraction, properties, mailbox, everVisited, ranBefore, formatting, config, emails, idx,
                 elapsed, totalTodosExtracted, pushLog, visited, extractLog,
                 outcome, error, wmStart, wmWrites>>

\* processFilteredEmails: the loop is over (all emails done, or the time limit
\* is passed at the check before an email); the success summary is pushed
LoopEnd ==
  /\ pc = "loop"
  /\ idx > Len(emails) \/ elapsed > MAX_EXECUTION_TIME_MS
  /\ push' = pushMessage(
       SummaryText(Len(emails), totalTodosExtracted, "success", "none"))
  /\ pc' = "push"
  /\ UNCHANGED <<retry, extraction, properties, mailbox, everVisited, ranBefore, formatting, config, emails, idx,
                 elapsed, totalTodosExtracted, pushLog, visited, extractLog,
                 outcome, error, wmStart, wmWrites>>

\* a catch block that reports success
CatchSummaryAsSuccess(errorKind) ==
  pushMessage(SummaryText(0, 0, "success", "none"))

\* the catch block of processEmails: the error summary is pushed
CatchSummary(errorKind) ==
  pushMessage(SummaryText(0, 0, "error", errorKind))

\* processEmail up to its pushMessage call: extraction, then either the
\* watermark is written (no todos) or the todos are pushed
ProcessEmail ==
  /\ pc = "loop"
  /\ idx <= Len(emails)
  /\ ~(elapsed > MAX_EXECUTION_TIME_MS)
  /\ \E reply \in RunGeminiReplies, d \in CallDurations :
       LET email == emails[idx]
           todos == extractTodos(reply, email.id)
       IN /\ elapsed' = Advance(elapsed, d)
          /\ visited' = Append(visited, email.id)
          /\ extractLog' = Append(extractLog,
               [threw |-> todos.threw, count |-> Len(todos.value)])
          /\ IF todos.threw
             THEN /\ error' = "gemini"
                  /\ push' = CatchSummary("gemini")
                  /\ pc' = "push"
                  /\ UNCHANGED <<properties, idx, wmWrites>>
             ELSE IF Len(todos.value) = 0
             THEN /\ properties' = updateLastProcessedTime(properties, email.date)
                  /\ wmWrites' = Append(wmWrites, email.date)
                  /\ idx' = idx + 1
                  /\ push' = NoPush
                  /\ UNCHANGED <<error, pc>>
             ELSE /\ push' = pushMessage(TodosText(email, todos.value))
                  /\ pc' = "push"
                  /\ UNCHANGED <<properties, idx, wmWrites, error>>
  /\ UNCHANGED <<retry, extraction, mailbox, everVisited, ranBefore, formatting, config, emails,
                 totalTodosExtracted, pushLog, outcome, wmStart>>

\* a sendRunSummary that lets the exception of its pushMessage call escape
OutcomeAfterSummaryUncaught(p) ==
  IF p.text.status = "error" \/ p.result = "threw" THEN "threw" ELSE "returned"

\* how processEmails ends once sendRunSummary is over: sendRunSummary catches
\* what its pushMessage call throws, then the try block returns, or the catch
\* block rethrows the error it caught
OutcomeAfterSummary(p) ==
  IF p.text.status = "error" THEN "threw" ELSE "returned"

\* what pushLog keeps of a finished pushMessage call
LogEntry(p) ==
  [kind |-> p.text.kind, emailId |-> p.text.emailId]

\* the pushMessage call in progress runs to its end (attempts and sleeps of
\* withRetry), and the caller goes on
PushMessage ==
  /\ pc = "push"
  /\ push.result = "pending"
  /\ \E r \in withRetry(withRetryStart) :
       LET p == [push EXCEPT !.result = r.result, !.httpStatus = r.httpStatus]
       IN /\ push' = p
          /\ pushLog' = Append(pushLog, LogEntry(p))
          /\ IF p.text.kind = "todos" /\ p.result = "returned"
             THEN \* processEmail: the watermark is written on 200 and on an
                  \* error status alike, and the todos are counted
                  /\ properties' =
                       updateLastProcessedTime(properties, emails[idx].date)
                  /\ wmWrites' = Append(wmWrites, emails[idx].date)
                  /\ totalTodosExtracted' =
                       totalTodosExtracted + Len(p.text.items)
                  /\ idx' = idx + 1
                  /\ pc' = "loop"
                  /\ UNCHANGED <<outcome, error>>
             ELSE IF p.text.kind = "todos"
             THEN \* withRetry threw: the catch block of processEmails
                  /\ error' = "line"
                  /\ pc' = "summaryOnError"
                  /\ UNCHANGED <<properties, idx, totalTodosExtracted,
                                 outcome, wmWrites>>
             ELSE \* sendRunSummary is over (it catches a throw of pushMessage):
                  \* processEmails returns, or rethrows from its catch block
                  /\ outcome' = OutcomeAfterSummary(p)
                  /\ pc' = "done"
                  /\ UNCHANGED <<properties, idx, totalTodosExtracted, error,
                                 wmWrites>>
  /\ UNCHANGED <<mailbox, everVisited, ranBefore, formatting, config, emails, visited,
                 extractLog, wmStart, elapsed, retry, extraction>>

\* the catch block of processEmails after a pushMessage that threw
SummaryOnError ==
  /\ pc = "summaryOnError"
  /\ push' = CatchSummary(error)
  /\ pc' = "push"
  /\ UNCHANGED <<retry, extraction, properties, mailbox, everVisited, ranBefore, formatting, config, emails, idx,
                 elapsed, totalTodosExtracted, pushLog, visited, extractLog,
                 outcome, error, wmStart, wmWrites>>

\* the run is over and the scheduler waits for the next trigger
FinishRun ==
  /\ pc = "done"
  /\ pc' = "idle"
  /\ everVisited' = everVisited \cup Range(visited)
  /\ config' = NoConfig
  /\ emails' = <<>>
  /\ idx' = 1
  /\ elapsed' = 0
  /\ totalTodosExtracted' = 0
  /\ push' = NoPush
  /\ retry' = NoRetry
  /\ extraction' = NoExtraction
  /\ pushLog' = <<>>
  /\ visited' = <<>>
  /\ extractLog' = <<>>
  /\ outcome' = "none"
  /\ error' = "none"
  /\ wmStart' = Num(0)
  /\ wmWrites' = <<>>
  /\ UNCHANGED <<properties, mailbox, formatting>>

Finish == FinishRun /\ UNCHANGED ranBefore

Next ==
  \/ Arrive
  \/ StartRun
  \/ FetchThrows
  \/ Fetch
  \/ LoopEnd
  \/ ProcessEmail
  \/ PushMessage
  \/ SummaryOnError
  \/ Finish

Spec == Init /\ [][Next]_vars

(***************************************************************************)
(* processEmails run again and again on a mailbox that does not change     *)
(***************************************************************************)
\* the inboxes of n messages that Arrive can build
RECURSIVE Inboxes(_)
Inboxes(n) ==
  IF n = 0 THEN {<<>>}
  ELSE {Append(box, [id |-> n, from |-> from, date |-> date, threadId |-> th]) :
          box \in {b \in Inboxes(n - 1) : Len(b) = n - 1},
          from \in Senders, date \in Dates, th \in ThreadIds}
       \cup Inboxes(n - 1)

WellFormedInbox(box) ==
  \A i \in 1 .. Len(box) :
     /\ box[i].threadId
          <= Cardinality({box[j].threadId : j \in 1 .. i - 1}) + 1
     /\ i > 1 => box[i].date >= box[i - 1].date

InitRerun ==
  /\ properties \in InitProperties
  /\ mailbox \in {box \in Inboxes(MaxMsgs) : WellFormedInbox(box)}
  /\ pc = "idle"
  /\ everVisited = {}
  /\ ranBefore = FALSE
  /\ formatting = NoFormatting
  /\ RunReset

\* the run returned, and every message that its query matched and that was
\* newer than the watermark it started from was handed to processEmail
HandledEverything ==
  /\ outcome = "returned"
  /\ \A i \in 1 .. Len(mailbox) :
        (/\ mailbox[i].threadId \in
               MatchingThreads(mailbox, config.lastProcessedTime,
                               config.senderWhitelist)
         /\ IsNewMessage(mailbox[i].date, config.lastProcessedTime))
          => mailbox[i].id \in Range(visited)

\* the run is over, and the next trigger finds the mailbox as this run left it
FinishRerun == FinishRun /\ ranBefore' = HandledEverything

NextRerun ==
  \/ StartRun
  \/ FetchThrows
  \/ Fetch
  \/ LoopEnd
  \/ ProcessEmail
  \/ PushMessage
  \/ SummaryOnError
  \/ FinishRerun

SpecRerun == InitRerun /\ [][NextRerun]_vars

(***************************************************************************)
(* pushMessage followed attempt by attempt                                 *)
(***************************************************************************)
PushTexts ==
  {SummaryText(0, 0, "success", "none"), SummaryText(0, 0, "error", "gemini")}

InitPush ==
  /\ properties = Props(<<"t">>, WhitelistStr, NULL, NULL)
  /\ mailbox = <<>>
  /\ pc = "push"
  /\ everVisited = {}
  /\ ranBefore = FALSE
  /\ formatting = NoFormatting
  /\ config = getConfig(properties)
  /\ emails = <<>>
  /\ idx = 1
  /\ elapsed = 0
  /\ totalTodosExtracted = 0
  /\ \E text \in PushTexts : push = pushMessage(text)
  /\ retry = withRetryStart
  /\ extraction = NoExtraction
  /\ pushLog = <<>>
  /\ visited = <<>>
  /\ extractLog = <<>>
  /\ outcome = "none"
  /\ error = "none"
  /\ wmStart = Num(0)
  /\ wmWrites = <<>>

\* one iteration of the withRetry loop: the HTTP attempt, and the sleep that
\* follows a failed attempt; here the clock counts every ms
PushAttempt ==
  /\ pc = "push"
  /\ retry.result = "pending"
  /\ \E reply \in LineReplies, d \in CallDurations :
       /\ retry' = withRetryStep(retry, reply)
       /\ elapsed' = elapsed + d + SumSeq(retry'.sleeps) - SumSeq(retry.sleeps)
       /\ push' = IF retry'.result = "pending" THEN push
                  ELSE [push EXCEPT !.result = retry'.result,
                                    !.httpStatus = retry'.httpStatus]
  /\ UNCHANGED <<properties, mailbox, pc, everVisited, ranBefore, formatting, config, emails, idx,
                 totalTodosExtracted, extraction, pushLog, visited, extractLog,
                 outcome, error, wmStart, wmWrites>>

NextPush == PushAttempt

SpecPush == InitPush /\ [][NextPush]_vars

(***************************************************************************)
(* extractTodos followed alone, over the answers of the endpoint           *)
(***************************************************************************)
\* longest run of fence, json and blank tokens before the payload
MaxPrefixLen == 3
\* longest run of tokens after the payload
MaxSuffixLen == 2

RECURSIVE SeqsUpTo(_, _)
SeqsUpTo(S, n) ==
  IF n = 0 THEN {<<>>}
  ELSE SeqsUpTo(S, n - 1)
       \cup {Append(q, x) : q \in {t \in SeqsUpTo(S, n - 1) : Len(t) = n - 1},
                            x \in S}

Payloads ==
  {<<>>, <<Tok("junk")>>, <<Tok("object")>>, <<Tok("null")>>,
   <<ArrayTok(<<>>)>>, <<ArrayTok(<<GoodItem, Elem("object", "", "none")>>)>>,
   <<ArrayTok(<<Elem("null", "", "none")>>)>>}

CandidateTexts ==
  {pre \o mid \o post :
     pre \in SeqsUpTo({Tok("fence"), Tok("json"), Tok("nl"), Tok("sp")},
                      MaxPrefixLen),
     mid \in Payloads,
     post \in SeqsUpTo({Tok("fence"), Tok("nl"), Tok("sp"), Tok("junk")},
                       MaxSuffixLen)}

ExtractReplies ==
  {GeminiException, GeminiHttp(500, "unparseable", <<>>),
   GeminiHttp(429, "text", <<ArrayTok(<<GoodItem>>)>>),
   GeminiHttp(200, "unparseable", <<>>), GeminiHttp(200, "noText", <<>>)}
  \cup {GeminiHttp(200, "text", text) : text \in CandidateTexts}

InitExtract ==
  /\ properties = Props(<<"t">>, WhitelistStr, NULL, NULL)
  /\ mailbox = <<>>
  /\ pc = "extract"
  /\ everVisited = {}
  /\ ranBefore = FALSE
  /\ formatting = NoFormatting
  /\ config = getConfig(properties)
  /\ emails = <<>>
  /\ idx = 1
  /\ elapsed = 0
  /\ totalTodosExtracted = 0
  /\ push = NoPush
  /\ retry = NoRetry
  /\ \E reply \in ExtractReplies :
       extraction = [reply |-> reply, done |-> FALSE, result |-> Threw]
  /\ pushLog = <<>>
  /\ visited = <<>>
  /\ extractLog = <<>>
  /\ outcome = "none"
  /\ error = "none"
  /\ wmStart = Num(0)
  /\ wmWrites = <<>>

\* the extractTodos call is made and ends
Extract ==
  /\ pc = "extract"
  /\ ~extraction.done
  /\ extraction' = [extraction EXCEPT !.done = TRUE,
                                      !.result = extractTodos(extraction.reply, 1)]
  /\ UNCHANGED <<properties, mailbox, pc, everVisited, ranBefore, formatting, config, emails, idx,
                 elapsed, totalTodosExtracted, push, retry, pushLog, visited,
                 extractLog, outcome, error, wmStart, wmWrites>>

NextExtract == Extract

SpecExtract == InitExtract /\ [][NextExtract]_vars

(***************************************************************************)
(* getConfig followed alone, over the values an operator may store         *)
(***************************************************************************)
ConfigStores ==
  [lineAccessToken : {NULL, <<>>, <<"t">>},
   lineGroupId : {NULL, <<>>, <<"C", "1">>},
   geminiApiKey : {NULL, <<>>, <<"k">>},
   senderWhitelist : {NULL, <<>>, <<" ", ",">>, WhitelistStr},
   lastProcessedTime :
     {NULL, <<>>, <<"0">>, <<"9">>, <<"-", "5">>, <<"a", "b">>,
      <<"1", "2", "x">>},
   maxEmailsPerRun :
     {NULL, <<"0">>, <<"-", "1">>, <<"x">>, <<"1">>, <<"1", "0", "0">>}]

InitConfig ==
  /\ properties \in ConfigStores
  /\ mailbox = <<>>
  /\ pc = "idle"
  /\ everVisited = {}
  /\ ranBefore = FALSE
  /\ formatting = NoFormatting
  /\ RunReset

\* the run is started, getConfig returns or throws, and the trigger comes again
NextConfig == StartRun \/ Finish

SpecConfig == InitConfig /\ [][NextConfig]_vars

(***************************************************************************)
(* formatTodosForLine followed alone                                       *)
(***************************************************************************)
\* most todos of one message
MaxTodos == 2
\* length of a long subject or description, about 100 short of the limit
NearLimit == 4900

FormatTodos ==
  SeqsUpTo([descriptionLength : {0, 1, 2, NearLimit},
            priority : {"high", "none"}], MaxTodos)

InitFormat ==
  /\ properties = Props(<<"t">>, WhitelistStr, NULL, NULL)
  /\ mailbox = <<>>
  /\ pc = "format"
  /\ everVisited = {}
  /\ ranBefore = FALSE
  /\ \E todos \in FormatTodos, sender \in {0, 1, 2}, subject \in {0, NearLimit} :
       formatting = [NoFormatting EXCEPT !.todos = todos, !.sender = sender,
                                         !.subject = subject]
  /\ RunReset

\* the formatTodosForLine call is made and ends
Format ==
  /\ pc = "format"
  /\ ~formatting.done
  /\ formatting' =
       [formatting EXCEPT
          !.done = TRUE,
          !.result = formatTodosForLine(formatting.todos, formatting.sender,
                                        formatting.subject)]
  /\ UNCHANGED <<properties, mailbox, pc, everVisited, ranBefore, runVars>>

NextFormat == Format

SpecFormat == InitFormat /\ [][NextFormat]_vars

(***************************************************************************)
(* Properties                                                              *)
(***************************************************************************)
\* receivedAt of the message with this id (ids are arrival positions)
MsgDate(id) == mailbox[id].date

SummaryPushes == Len(SelectSeq(pushLog, LAMBDA e : e.kind = "summary"))

\* C1: when a run of processEmails is over, whether it returned or threw, the
\* persisted watermark is greater than or equal to its value at the start of
\* the run.
C1_WatermarkNotBelowStart ==
  pc = "done" => NumLeq(wmStart, PersistedWatermark)

\* a run that wrote the watermark twice, the second value below the first
C1_Witness ==
  /\ pc = "done"
  /\ Len(wmWrites) >= 2
  /\ wmWrites[2] < wmWrites[1]
  /\ PersistedWatermark.n > wmStart.n

\* C2: the messages of one run are visited by processEmail in ascending
\* receivedAt order, whatever order the mailbox search returns the threads in.
C2_VisitedInAscendingOrder ==
  \A i, j \in 1 .. Len(visited) :
     i < j => MsgDate(visited[i]) <= MsgDate(visited[j])

\* C3: a message visited by processEmail in one run is never visited again by
\* a later run.
C3_NeverVisitedAgain ==
  \A i \in 1 .. Len(visited) : visited[i] \notin everVisited

\* C4: when a run is over, the watermark has been written with the receivedAt
\* of every message whose processing was started, whatever the outcome of its
\* extraction and dispatch.
C4_WatermarkWrittenForEveryVisited ==
  pc = "done" =>
    /\ Len(wmWrites) = Len(visited)
    /\ \A i \in 1 .. Len(visited) : wmWrites[i] = MsgDate(visited[i])

\* C5: a run in which getConfig succeeded ends with exactly one run-summary
\* push, also when it aborted on a mailbox fetch, extraction or dispatch
\* failure; a run whose getConfig failed sends none.
C5_ExactlyOneSummary ==
  pc = "done" =>
    IF error = "config" THEN SummaryPushes = 0 ELSE SummaryPushes = 1

\* C6: extractTodos never raises: a failure of the extraction endpoint gives
\* an empty list and the run goes on.
C6_ExtractNeverRaises ==
  /\ \A i \in 1 .. Len(extractLog) : ~extractLog[i].threw
  /\ error # "gemini"

\* the shapes of a malformed candidate text: no JSON at all, or one JSON value
\* that is no array, with blanks around it
IsNotJson(text) == \E i \in 1 .. Len(text) : text[i].t = "junk"

IsNonArrayValue(text) ==
  SelectSeq(text, LAMBDA tok : ~IsSpaceTok(tok))
    \in {<<Tok("object")>>, <<Tok("null")>>}

\* a JSON array in a Markdown code fence, with or without the word json and
\* the newlines
FencedForms(array) ==
  {<<Tok("fence"), Tok("json"), Tok("nl"), array, Tok("nl"), Tok("fence")>>,
   <<Tok("fence"), Tok("json"), array, Tok("fence")>>,
   <<Tok("fence"), Tok("nl"), array, Tok("nl"), Tok("fence")>>,
   <<Tok("fence"), array, Tok("fence")>>}

ValidArray == ArrayTok(<<GoodItem, Elem("object", "", "none")>>)

ValidArrayTodos ==
  <<[description |-> "task", priority |-> "high", sourceEmailId |-> 1],
    [description |-> "", priority |-> "none", sourceEmailId |-> 1]>>

C8_ErrorStatusIsRetried ==
  \A i \in 1 .. Len(retry.replies) :
     (i <= 3 /\ i = Len(retry.replies) /\ retry.replies[i].kind = "http"
        /\ retry.replies[i].status \in {429, 500})
       => retry.result = "pending"

\* C9: pushMessage never raises, also when every attempt fails with a
\* transport exception, and a dispatch failure never aborts the run.
C9_DispatchFailureNeverAborts ==
  push.result # "threw" /\ error # "line"

\* C10: one pushMessage call makes at most 4 HTTP attempts, the sleep after
\* failed attempt k (0-based) is 2^k seconds, so that 2^i - 1 seconds have been
\* slept before attempt i, and there is no sleep after the final attempt.
C10_AttemptsAndBackoff ==
  /\ retry.calls <= 4
  /\ \A k \in 1 .. Len(retry.sleeps) : retry.sleeps[k] = Pow2(k - 1) * 1000
  /\ retry.result = "pending" =>
       SumSeq(retry.sleeps) = (Pow2(retry.calls) - 1) * 1000
  /\ retry.result \in {"returned", "threw"} =>
       Len(retry.sleeps) = retry.calls - 1

\* every attempt failed with a transport exception
C10_Witness ==
  /\ retry.result = "threw"
  /\ retry.calls = 4
  /\ retry.sleeps = <<1000, 2000, 4000>>
  /\ elapsed >= 7000

\* the push of the todos of a message is over and did not end with status 200
PushForMessageFailed ==
  /\ push.text.kind = "todos"
  /\ push.result \in {"returned", "threw"}
  /\ ~(push.result = "returned" /\ push.httpStatus = 200)

\* the greatest of the watermark values written so far in this run, 0 if none
MaxWritten ==
  IF wmWrites = <<>> THEN 0
  ELSE CHOOSE w \in Range(wmWrites) : \A v \in Range(wmWrites) : v <= w

\* C11: when the push for a message returns a non-2xx status, the run goes on
\* with the next message (no abort), the watermark is written for the message,
\* and the persisted watermark is not below any value written for an earlier
\* message of the run.
C11_FailedPushKeepsRunAndWatermark ==
  (push.text.kind = "todos" /\ push.result = "returned"
     /\ push.httpStatus # 200) =>
    /\ pc = "loop"
    /\ error = "none"
    /\ idx = Len(visited) + 1
    /\ Len(wmWrites) = Len(visited)
    /\ PersistedWatermark = Num(MaxWritten)

\* C12: after the push for a message has failed, the summary that the run
\* builds next is not a plain success: it reports an error.
C12_SummaryRecordsFailedPush ==
  [][(PushForMessageFailed /\ push'.text.kind = "summary")
       => push'.text.status = "error"]_vars

\* C13: a message whose extraction returned the empty list has no pushMessage
\* call, and the watermark is written with its receivedAt at once.
C13_EmptyExtractionSkipsPush ==
  \A i \in 1 .. Len(visited) :
     (~extractLog[i].threw /\ extractLog[i].count = 0) =>
       /\ \A k \in 1 .. Len(pushLog) :
             ~(pushLog[k].kind = "todos" /\ pushLog[k].emailId = visited[i])
       /\ ~(push.text.kind = "todos" /\ push.text.emailId = visited[i])
       /\ i <= Len(wmWrites)
       /\ wmWrites[i] = MsgDate(visited[i])
       /\ i = Len(visited) => PersistedWatermark = Num(MsgDate(visited[i]))

\* an empty extraction after a pushed message, in one run
C13_Witness ==
  /\ Len(visited) = 2
  /\ extractLog[1].count > 0
  /\ ~extractLog[2].threw
  /\ extractLog[2].count = 0
  /\ Len(wmWrites) = 2
  /\ Len(pushLog) = 1

\* C14: every message handed to processEmail has its sender in the whitelist.
C14_OnlyWhitelistedVisited ==
  \A i \in 1 .. Len(visited) :
     InWhitelist(mailbox[visited[i]].from, config.senderWhitelist)

\* the greatest receivedAt of the fetched messages
MaxFetchedDate ==
  CHOOSE d \in {emails[i].date : i \in 1 .. Len(emails)} :
     \A i \in 1 .. Len(emails) : emails[i].date <= d

\* C15: when a run that visited all the messages it fetched has returned, the
\* persisted watermark is the greatest receivedAt of the fetched messages.
C15_WatermarkIsMaxFetched ==
  (pc = "done" /\ outcome = "returned" /\ emails # <<>>
     /\ Len(visited) = Len(emails)) =>
    PersistedWatermark = Num(MaxFetchedDate)

\* C16: the number of messages fetched in a run is at most maxEmailsPerRun.
C16_FetchedAtMostMax ==
  pc \in {"loop", "push", "summaryOnError", "done"} /\ config # NoConfig =>
    Len(emails) <= config.maxEmailsPerRun.n

\* C17: a run that follows, on an unchanged mailbox, a run that returned and
\* left no message behind fetches no message, pushes no todos and writes no
\* watermark.
C17_SecondRunDoesNothing ==
  ranBefore =>
    /\ emails = <<>>
    /\ visited = <<>>
    /\ wmWrites = <<>>
    /\ push.text.kind # "todos"

\* C18: no message is handed to processEmail once more than 6 minutes have
\* elapsed, and a message handed to processEmail is carried to its end:
\* extraction, then the push when there are todos, then the watermark write.
C18_DeadlineBetweenMessagesOnly ==
  [][/\ Len(visited') > Len(visited) => elapsed <= MAX_EXECUTION_TIME_MS
     /\ pc' \in {"loop", "done"} =>
          /\ Len(wmWrites') = Len(visited')
          /\ \A i \in 1 .. Len(extractLog') : ~extractLog'[i].threw]_vars

\* the part of C18 on the time limit alone
DeadlineCheckedBeforeEachMessage ==
  [][Len(visited') > Len(visited) => elapsed <= MAX_EXECUTION_TIME_MS]_vars

\* C19: when the loop stopped at the time limit, every fetched message that
\* was not visited has a receivedAt above the persisted watermark.
C19_UnvisitedAboveWatermark ==
  (pc = "done" /\ outcome = "returned" /\ Len(visited) < Len(emails)) =>
    \A i \in (Len(visited) + 1) .. Len(emails) :
       ~NumLeq(Num(emails[i].date), PersistedWatermark)

\* C20: a run whose fetch returned no message leaves the watermark as it was,
\* calls no extraction, pushes the zero-activity success summary and nothing
\* else, and returns.
C20_EmptyFetchOnlySummary ==
  (pc = "done" /\ error = "none" /\ emails = <<>>) =>
    /\ wmWrites = <<>>
    /\ PersistedWatermark = wmStart
    /\ extractLog = <<>>
    /\ visited = <<>>
    /\ pushLog = <<[kind |-> "summary", emailId |-> 0]>>
    /\ push.text =
         [kind |-> "summary", emailId |-> 0, items |-> <<>>,
          status |-> "success", emailsFound |-> 0, todosExtracted |-> 0,
          errorMsg |-> "none"]
    /\ outcome = "returned"

\* an empty fetch on a mailbox that holds messages, after an earlier run
C20_Witness ==
  /\ pc = "done"
  /\ error = "none"
  /\ emails = <<>>
  /\ mailbox # <<>>
  /\ everVisited # {}
  /\ Len(pushLog) = 1

\* C21 as stated: processEmails never raises; every failure of a run is
\* caught, a failure summary is pushed, and the call returns.
C21_NeverRaises ==
  pc = "done" =>
    /\ outcome = "returned"
    /\ error # "none" => SummaryPushes = 1

\* C21, amended: a failure raised while the messages are processed is caught,
\* one error summary is pushed (the push itself may fail), and the error is
\* then rethrown to the scheduler; a run without failure returns.
C21_CaughtSummarisedRethrown ==
  pc = "done" =>
    /\ error \in {"gemini", "line"} =>
         /\ outcome = "threw"
         /\ SummaryPushes = 1
         /\ push.text.kind = "summary"
         /\ push.text.status = "error"
         /\ push.text.errorMsg = error
    /\ error = "none" => outcome = "returned"

\* a dispatch failure was caught and the error summary could not be pushed
C21_Witness ==
  /\ pc = "done"
  /\ error = "line"
  /\ outcome = "threw"
  /\ push.text.status = "error"
  /\ push.result = "threw"

\* one of the four required keys is absent or empty, or the whitelist holds
\* blanks and commas only
RequiredMissing(props) ==
  \/ \E k \in {"lineAccessToken", "lineGroupId", "geminiApiKey",
               "senderWhitelist"} : props[k] = NULL \/ props[k] = <<>>
  \/ \A i \in 1 .. Len(props.senderWhitelist) :
        props.senderWhitelist[i] \in {" ", ","}

\* C22: with a required key absent or empty, or a whitelist without entry,
\* the run ends in getConfig's error: no fetch, no message handed to
\* processEmail, no push, no watermark write; otherwise getConfig succeeds.
C22_MissingRequiredKeyAborts ==
  pc # "idle" =>
    IF RequiredMissing(properties)
    THEN /\ pc = "done"
         /\ error = "config"
         /\ outcome = "threw"
         /\ config = NoConfig
         /\ emails = <<>>
         /\ visited = <<>>
         /\ pushLog = <<>>
         /\ push = NoPush
         /\ wmWrites = <<>>
    ELSE error # "config"

\* a run aborted on a whitelist of blanks, with mail waiting in the inbox
C22_Witness ==
  /\ pc = "done"
  /\ error = "config"
  /\ properties.senderWhitelist = <<" ", ",">>
  /\ mailbox # <<>>

\* C29: the watermark is written once per processed message, in visit order
\* and before the next message is started; the store always holds the last
\* value written (the start value if none), so a run that aborts on message k
\* leaves the receivedAt of message k-1.
C29_WatermarkWrittenPerMessage ==
  pc # "idle" =>
    /\ Len(wmWrites) \in {Len(visited) - 1, Len(visited)}
    /\ \A i \in 1 .. Len(wmWrites) : wmWrites[i] = MsgDate(visited[i])
    /\ PersistedWatermark =
         IF wmWrites = <<>> THEN wmStart ELSE Num(wmWrites[Len(wmWrites)])
    /\ error \in {"gemini", "line"} => Len(wmWrites) = Len(visited) - 1

\* a run aborted on its second message: the store holds the first one's date
C29_Witness ==
  /\ pc = "done"
  /\ error = "line"
  /\ Len(visited) = 2
  /\ PersistedWatermark = Num(MsgDate(visited[1]))
  /\ PersistedWatermark # wmStart

\* C30: no step changes a store key other than lastProcessedTime, the
\* AppConfig of a run does not change while the run lasts, and it is the one
\* loaded from the store at the start of the run.
C30_OnlyWatermarkWritten ==
  [][/\ \A k \in {"lineAccessToken", "lineGroupId", "geminiApiKey",
                  "senderWhitelist", "maxEmailsPerRun"} :
           properties'[k] = properties[k]
     /\ (pc # "idle" /\ pc' # "idle") => config' = config
     /\ (pc' # "idle" /\ error' # "config") =>
          /\ config'.lastProcessedTime = wmStart'
          /\ config' = [getConfig(properties')
                          EXCEPT !.lastProcessedTime = wmStart']]_vars

\* the store was written during the run and the AppConfig still holds the
\* watermark of the start
C30_Witness ==
  /\ pc = "loop"
  /\ wmWrites # <<>>
  /\ PersistedWatermark # config.lastProcessedTime
  /\ config.lastProcessedTime = wmStart

\* C23: every AppConfig that getConfig returns has a whitelist entry, a
\* lastProcessedTime that is an integer >= 0 and a maxEmailsPerRun that is a
\* positive integer.
C23_ConfigInvariant ==
  (pc = "fetch") =>
    /\ Len(config.senderWhitelist) >= 1
    /\ ~config.lastProcessedTime.nan
    /\ config.lastProcessedTime.n >= 0
    /\ ~config.maxEmailsPerRun.nan
    /\ config.maxEmailsPerRun.n >= 1

\* C24: with lastProcessedTime absent from the store (or empty), getConfig
\* throws and no run starts.
C24_WatermarkKeyRequired ==
  (pc # "idle" /\ Falsy(properties.lastProcessedTime)) => error = "config"

\* message.length of the text rendered for the call that is followed
FormattingRendered ==
  RenderedLength(formatting.todos, formatting.sender, formatting.subject)

\* C25: for a non-empty list the text formatTodosForLine returns has at most
\* 5000 code units, and it ends with the truncation marker whenever the
\* rendered text has more than 5000.
C25_FormattedWithinLimit ==
  (formatting.done /\ Len(formatting.todos) >= 1) =>
    /\ TextLength(formatting.result) <= 5000
    /\ FormattingRendered > 5000 =>
         formatting.result.suffix = TruncationSuffix
    /\ FormattingRendered <= 5000 =>
         formatting.result = [kept |-> FormattingRendered, suffix |-> <<>>]

\* a rendered text one code unit over the limit was truncated
C25_Witness ==
  /\ formatting.done
  /\ FormattingRendered = 5001
  /\ formatting.result.suffix = TruncationSuffix

\* C26 as stated: a truncated text keeps 5000 minus the length of the suffix
\* code units of the rendered text and is 5000 long.
C26_TruncatedIsExactlyLimit ==
  (formatting.done /\ FormattingRendered > 5000) =>
    /\ formatting.result.kept = 5000 - Len(TruncationSuffix)
    /\ TextLength(formatting.result) = 5000

\* C26, amended: a truncated text keeps the first 4980 code units of the
\* rendered text (the limit minus 20) and appends the 16 of the suffix: it is
\* 4996 long.
C26_TruncatedKeepsLimitMinus20 ==
  (formatting.done /\ FormattingRendered > 5000) =>
    /\ formatting.result.kept = 4980
    /\ formatting.result.suffix = TruncationSuffix
    /\ Len(TruncationSuffix) = 16
    /\ TextLength(formatting.result) = 4996

\* two todos whose text was truncated
C26_Witness ==
  /\ formatting.done
  /\ Len(formatting.todos) = 2
  /\ FormattingRendered > 5000
  /\ TextLength(formatting.result) = 4996

\* C27 as stated: a response with any 2xx status is a success: it ends the
\* call and is taken for a delivery.
C27_Any2xxIsSuccess ==
  (retry.result = "returned" /\ retry.httpStatus \in 200 .. 299) =>
    /\ ~handleLineResponse(retry.httpStatus).hasError
    /\ IsSent(handleLineResponse(retry.httpStatus))

\* C27, amended: a response with status 200 ends the call at once and is taken
\* for a delivery; a response with another status, 2xx included, is returned
\* as an error response and is not taken for a delivery.
C27_Only200IsSuccess ==
  /\ \A i \in 1 .. Len(retry.replies) :
        retry.replies[i] = LineHttp(200) =>
          /\ i = Len(retry.replies)
          /\ retry.result = "returned"
          /\ retry.httpStatus = 200
  /\ retry.result = "returned" =>
       /\ handleLineResponse(retry.httpStatus).hasError
            <=> retry.httpStatus # 200
       /\ IsSent(handleLineResponse(retry.httpStatus))
            <=> retry.httpStatus = 200

\* a 204 answered after a transport failure
C27_Witness ==
  /\ retry.result = "returned"
  /\ retry.httpStatus = 204
  /\ retry.calls = 2

\* C28: every item that extractTodos returns has a non-empty description.
C28_NoEmptyDescription ==
  (extraction.done /\ ~extraction.result.threw) =>
    \A i \in 1 .. Len(extraction.result.value) :
       extraction.result.value[i].description # ""

\* C31: every message returned by the fetch of a run has a receivedAt strictly
\* above the watermark the fetch was given; a message received exactly at the
\* watermark is not returned.
C31_FetchedAboveWatermark ==
  pc # "idle" =>
    \A i \in 1 .. Len(emails) :
       /\ ~config.lastProcessedTime.nan
       /\ emails[i].date > config.lastProcessedTime.n

\* a fetch that returned a message and left out a whitelisted one of the same
\* thread, received exactly at the watermark
C31_Witness ==
  /\ pc = "loop"
  /\ emails # <<>>
  /\ \E m \in Range(mailbox) :
        /\ m.date = config.lastProcessedTime.n
        /\ InWhitelist(m.from, config.senderWhitelist)
        /\ m.threadId = emails[1].threadId
        /\ \A i \in 1 .. Len(emails) : emails[i].id # m.id

\* C32: the summary push is the last push of its run: no push is logged after
\* it, no push of todos is in progress once it is logged, the loop is not
\* running while it is pushed, and a success summary is built only when all
\* the fetched messages are done or the time limit is passed.
C32_SummaryIsLastPush ==
  /\ \A k \in 1 .. Len(pushLog) :
        pushLog[k].kind = "summary" =>
          /\ k = Len(pushLog)
          /\ push.text.kind = "summary"
  /\ push.text.kind = "summary" =>
        /\ pc \in {"push", "done"}
        /\ push.text.status = "success" =>
              idx > Len(emails) \/ elapsed > MAX_EXECUTION_TIME_MS

\* a run stopped by the time limit after one pushed message: the push of the
\* todos, then the summary, and a fetched message left unvisited
C32_Witness ==
  /\ pc = "done"
  /\ outcome = "returned"
  /\ Len(pushLog) = 2
  /\ pushLog[1].kind = "todos"
  /\ pushLog[2].kind = "summary"
  /\ Len(visited) < Len(emails)

\* the pushMessage calls of this run that carry the todos of the message with
\* this id: those completed, and the one in progress
TodosPushesFor(id) ==
  Len(SelectSeq(pushLog, LAMBDA e : e.kind = "todos" /\ e.emailId = id))
    + (IF push.result = "pending" /\ push.text.kind = "todos"
          /\ push.text.emailId = id THEN 1 ELSE 0)

\* C33: every visited message whose extraction gave todos has exactly one
\* pushMessage call; the call carries the todos of that message and of no
\* other, and it is over before the next message is handed to processEmail.
C33_OnePushPerMessage ==
  /\ \A i \in 1 .. Len(visited) :
        (~extractLog[i].threw /\ extractLog[i].count > 0) =>
          /\ TodosPushesFor(visited[i]) = 1
          /\ i < Len(visited) =>
                \E k \in 1 .. Len(pushLog) :
                   pushLog[k].kind = "todos" /\ pushLog[k].emailId = visited[i]
  /\ push.text.kind = "todos" =>
        /\ visited # <<>>
        /\ push.text.emailId = visited[Len(visited)]
        /\ Len(push.text.items) = extractLog[Len(visited)].count
        /\ \A k \in 1 .. Len(push.text.items) :
              push.text.items[k].sourceEmailId = push.text.emailId
  /\ \A k \in 1 .. Len(pushLog) :
        pushLog[k].kind = "todos" =>
          \E i \in 1 .. Len(visited) :
             /\ visited[i] = pushLog[k].emailId
             /\ ~extractLog[i].threw
             /\ extractLog[i].count > 0

\* two messages with todos in one run: two pushes, one for each, in visit order
C33_Witness ==
  /\ Len(visited) = 2
  /\ Len(pushLog) = 2
  /\ pushLog[1] = [kind |-> "todos", emailId |-> visited[1]]
  /\ pushLog[2] = [kind |-> "todos", emailId |-> visited[2]]
  /\ pc = "loop"

\* the number of todos extracted over the messages visited so far in this run
TodosOverVisited ==
  SumSeq([i \in 1 .. Len(extractLog) |->
            IF extractLog[i].threw THEN 0 ELSE extractLog[i].count])

\* C34: the summary of a run carries the counters of the run, the number of
\* messages fetched and the number of todos extracted over the messages
\* visited, in the success summary and in the failure summary alike.
C34_SummaryCarriesCounters ==
  push.text.kind = "summary" =>
    /\ push.text.emailsFound = Len(emails)
    /\ push.text.todosExtracted = TodosOverVisited

\* the part of C34 on the success summary
SuccessSummaryCarriesCounters ==
  (push.text.kind = "summary" /\ push.text.status = "success") =>
    /\ push.text.emailsFound = Len(emails)
    /\ push.text.todosExtracted = TodosOverVisited

\* C35: a run whose mailbox fetch raised is over with the error thrown to the
\* caller; the watermark is as it was at the start, no message was handed to
\* processEmail, no extraction was made and no todos were pushed.
C35_FetchFailureAborts ==
  error = "gmail" =>
    /\ pc = "done"
    /\ outcome = "threw"
    /\ PersistedWatermark = wmStart
    /\ wmWrites = <<>>
    /\ emails = <<>>
    /\ visited = <<>>
    /\ extractLog = <<>>
    /\ push.text.kind # "todos"
    /\ \A k \in 1 .. Len(pushLog) : pushLog[k].kind # "todos"

\* the fetch raised in a run that follows a run which moved the watermark,
\* with mail in the inbox
C35_Witness ==
  /\ pc = "done"
  /\ error = "gmail"
  /\ outcome = "threw"
  /\ mailbox # <<>>
  /\ everVisited # {}
  /\ wmStart = Num(MsgDate(1))

\* C36: a summary push that failed (pushMessage threw, or the endpoint
\* answered an error status) changes nothing else: after a success summary
\* the run has returned without error and the store holds the last watermark
\* written for a message (the start value if none); after an error summary
\* the error thrown to the caller is the one the catch block caught, that of
\* the extraction or of the push of todos.
C36_SummaryFailureSwallowed ==
  (pc = "done" /\ push.text.kind = "summary"
     /\ ~(push.result = "returned" /\ push.httpStatus = 200)) =>
    /\ PersistedWatermark =
         IF wmWrites = <<>> THEN wmStart ELSE Num(wmWrites[Len(wmWrites)])
    /\ IF push.text.status = "success"
       THEN /\ outcome = "returned"
            /\ error = "none"
       ELSE /\ outcome = "threw"
            /\ error \in {"gemini", "line"}
            /\ push.text.errorMsg = error
            /\ error = "gemini" => extractLog[Len(extractLog)].threw
            /\ error = "line" =>
                 /\ Len(pushLog) >= 2
                 /\ pushLog[Len(pushLog) - 1] =
                      [kind |-> "todos", emailId |-> visited[Len(visited)]]

\* the success summary of a run that wrote the watermark could not be pushed,
\* and the run returned
C36_Witness ==
  /\ pc = "done"
  /\ push.text.kind = "summary"
  /\ push.text.status = "success"
  /\ push.result = "threw"
  /\ outcome = "returned"
  /\ wmWrites # <<>>

\* C37: within a run every write of the watermark stores a value greater than
\* or equal to the one it overwrites: the first write is not below the value
\* of the start, and each later write is not below the write before it.
C37_WritesNeverMoveBack ==
  /\ wmWrites # <<>> => NumLeq(wmStart, Num(wmWrites[1]))
  /\ \A i \in 1 .. Len(wmWrites) - 1 : wmWrites[i] <= wmWrites[i + 1]

\* the mailbox fetch of this run returned after the time limit: the clock is
\* past the limit and no message has been handed to processEmail (the clock
\* moves at the fetch and at the extractions only)
FetchReturnedPastLimit ==
  /\ pc \in {"loop", "push", "summaryOnError", "done"}
  /\ error # "config"
  /\ elapsed > MAX_EXECUTION_TIME_MS
  /\ visited = <<>>

\* C38: when the time limit is already passed as the mailbox fetch returns,
\* the run keeps none of the fetched messages: nothing is extracted or pushed
\* for a message, the watermark is not written, so that a fetch with the
\* stored watermark returns what this fetch returned, and the run pushes the
\* zero-activity success summary and returns.
C38_LateFetchIsDiscarded ==
  FetchReturnedPastLimit =>
    /\ pc \in {"push", "done"}
    /\ emails = <<>>
    /\ extractLog = <<>>
    /\ wmWrites = <<>>
    /\ PersistedWatermark = wmStart
    /\ getConfig(properties).lastProcessedTime = config.lastProcessedTime
    /\ push.text = SummaryText(0, 0, "success", "none")
    /\ error = "none"
    /\ pc = "done" =>
          /\ outcome = "returned"
          /\ pushLog = <<[kind |-> "summary", emailId |-> 0]>>

\* a run whose fetch returned past the limit is over, and the inbox holds a
\* whitelisted message above the watermark
C38_Witness ==
  /\ FetchReturnedPastLimit
  /\ pc = "done"
  /\ \E m \in Range(mailbox) :
        /\ InWhitelist(m.from, config.senderWhitelist)
        /\ m.date > config.lastProcessedTime.n

====
